---------------------------- MODULE Spec2Model ----------------------------
(***************************************************************************)
(* Model of get_labels (src/modules/venn.py, lines 68-124): the region     *)
(* decomposition and labelling behind the Venn diagrams.                   *)
(*                                                                         *)
(* Conventions.  A Python str is a sequence of one-character strings       *)
(* ("101" is <<"1","0","1">>), a Python list is a sequence, a Python set   *)
(* is a set, and a Python dict is the sequence of its <<key, value>>       *)
(* pairs in insertion order.  Python indexes from 0 and TLA+ from 1:       *)
(* group i and character i of the source are index i + 1 here.             *)
(***************************************************************************)
EXTENDS Integers, Sequences, FiniteSets, TLC

(***************************************************************************)
(* Bounds of the model.                                                    *)
(***************************************************************************)
MaxN == 2
MaxElem == 2
MaxTotal == 3
MaxCalls == 2

VARIABLES
    data,             \* the argument `data`: a list of collections
    fill_arg,         \* <<>> when `fill` is omitted, <<lst>> when lst is passed
    fill_default,     \* the default list object of the parameter `fill`
    fill,             \* the parameter `fill` as bound for the running call
    pc,               \* position of the running call
    N,
    sets_data,
    s_all,
    n,                \* the loop variable of `for n in range(1, 2**N)`
    set_collections,
    labels,
    returned          \* what the calls made so far gave back, oldest first

vars == <<data, fill_arg, fill_default, fill, pc, N, sets_data, s_all, n,
          set_collections, labels, returned>>

----------------------------------------------------------------------------
(***************************************************************************)
(* Python built-ins used by get_labels.                                    *)
(***************************************************************************)

\* set(xs): the elements of an iterable, duplicates and order forgotten.
Set(xs) == {xs[i] : i \in DOMAIN xs}

\* chain(*data): the collections laid end to end.
RECURSIVE Chain(_)
Chain(d) == IF d = <<>> THEN <<>> ELSE Head(d) \o Chain(Tail(d))

\* 2**N
RECURSIVE Pow2(_)
Pow2(k) == IF k = 0 THEN 1 ELSE 2 * Pow2(k - 1)

Digits == <<"0", "1", "2", "3", "4", "5", "6", "7", "8", "9">>

\* str(k) for an int k >= 0.
RECURSIVE Str(_)
Str(k) == IF k < 10 THEN <<Digits[k + 1]>>
          ELSE Str(k \div 10) \o <<Digits[(k % 10) + 1]>>

\* bin(k).split('0b')[-1]: the binary digits of k >= 0, most significant first.
RECURSIVE BinDigits(_)
BinDigits(k) == IF k < 2 THEN <<Digits[k + 1]>>
                ELSE BinDigits(k \div 2) \o <<Digits[(k % 2) + 1]>>

\* s.zfill(w): zeros on the left up to width w; a longer s is left alone.
RECURSIVE Zfill(_, _)
Zfill(s, w) == IF Len(s) >= w THEN s ELSE Zfill(<<"0">> \o s, w)

\* d[k] = v on a dict: a present key keeps its place, a new key goes last.
DictSet(d, k, v) ==
    IF \E i \in DOMAIN d : d[i][1] = k
    THEN [i \in DOMAIN d |-> IF d[i][1] = k THEN <<k, v>> ELSE d[i]]
    ELSE Append(d, <<k, v>>)

\* d[k] for a key that is present.
DictGet(d, k) == d[CHOOSE i \in DOMAIN d : d[i][1] = k][2]

\* list(d): the keys in iteration order.
DictKeys(d) == [i \in DOMAIN d |-> d[i][1]]

\* x in lst
In(x, lst) == \E i \in DOMAIN lst : lst[i] = x


----------------------------------------------------------------------------
(***************************************************************************)
(* The body of get_labels, statement by statement.                         *)
(***************************************************************************)

\* sets_data = [set(data[i]) for i in range(N)]
SetsData(d) == [i \in 1..Len(d) |-> Set(d[i])]

\* s_all = set(chain(*data))
SAll(d) == Set(Chain(d))

RECURSIVE Reversed(_)
Reversed(s) == IF s = <<>> THEN <<>> ELSE Append(Reversed(Tail(s)), Head(s))

\* Variant of Key: the digits written least significant first.
KeyLeastSignificantFirst(k, width) == Reversed(Zfill(BinDigits(k), width))

\* key = bin(n).split('0b')[-1].zfill(N)
Key(k, width) == Zfill(BinDigits(k), width)

\* Variant of SetsWithFlag: character N-1-i of the key is read for group i.
RECURSIVE SetsWithFlagFromRight(_, _, _, _)
SetsWithFlagFromRight(sets, key, flag, i) ==
    IF i > Len(sets) THEN <<>>
    ELSE (IF key[Len(sets) + 1 - i] = flag THEN <<sets[i]>> ELSE <<>>)
         \o SetsWithFlagFromRight(sets, key, flag, i + 1)

\* [sets_data[i] for i in range(N) if key[i] == flag]
RECURSIVE SetsWithFlag(_, _, _, _)
SetsWithFlag(sets, key, flag, i) ==
    IF i > Len(sets) THEN <<>>
    ELSE (IF key[i] = flag THEN <<sets[i]>> ELSE <<>>)
         \o SetsWithFlag(sets, key, flag, i + 1)

SetsForIntersection(sets, key) == SetsWithFlag(sets, key, "1", 1)

SetsForDifference(sets, key) == SetsWithFlag(sets, key, "0", 1)

\* for s in sets_for_intersection: value = value & s
RECURSIVE IntersectAll(_, _)
IntersectAll(value, ss) ==
    IF ss = <<>> THEN value ELSE IntersectAll(value \cap Head(ss), Tail(ss))

\* Variant of SubtractAll: the loop stops after its first set.
SubtractFirstOnly(value, ss) == IF ss = <<>> THEN value ELSE value \ Head(ss)

\* for s in sets_for_difference: value = value - s
RECURSIVE SubtractAll(_, _)
SubtractAll(value, ss) ==
    IF ss = <<>> THEN value ELSE SubtractAll(value \ Head(ss), Tail(ss))

\* Variant of RegionValue: lines 108-109 left out.
RegionValueIntersectOnly(universe, sets, key) ==
    IntersectAll(universe, SetsForIntersection(sets, key))

\* One pass of the loop body: value starts as s_all and ends as the region.

RegionValue(universe, sets, key) ==
    SubtractAll(IntersectAll(universe, SetsForIntersection(sets, key)),
                SetsForDifference(sets, key))

\* Variant of SAllAfterBody: `value &= s`, `value -= s`, which update the
\* set that value and s_all both name.
SAllAfterBodyInPlace(universe, value) == value

\* `value = value & s` and `value = value - s` build new sets: the object
\* s_all names is the same after the loop body as before it.

SAllAfterBody(universe, value) == universe

\* labels = {k: "" for k in set_collections}
RECURSIVE EmptyLabels(_)
EmptyLabels(ks) ==
    IF ks = <<>> THEN <<>>
    ELSE DictSet(EmptyLabels(SubSeq(ks, 1, Len(ks) - 1)), ks[Len(ks)], <<>>)

\* labels[k] = k + ": "
LogicLabel(old, k) == k \o <<":", " ">>

\* Variant of NumberLabel: `=` for `+=`.
NumberLabelAssigned(old, value) == Str(Cardinality(value))

\* labels[k] += str(len(set_collections[k]))

NumberLabel(old, value) == old \o Str(Cardinality(value))

\* "%.1f" of 100.0 * count / size: the nearest tenth; an exact tie, which
\* needs size to be a multiple of 16, goes to the even tenth.
PercentTenths(count, size) ==
    LET q == (1000 * count) \div size
        r == (1000 * count) % size
    IN  IF 2 * r > size THEN q + 1
        ELSE IF 2 * r < size THEN q
        ELSE IF q % 2 = 0 THEN q ELSE q + 1

\* labels[k] += "(%.1f%%)" % (100.0 * len(set_collections[k]) / data_size)
PercentLabel(old, value, data_size) ==
    LET t == PercentTenths(Cardinality(value), data_size)
    IN  old \o <<"(">> \o Str(t \div 10) \o <<".", Digits[(t % 10) + 1]>>
            \o <<"%", ")">>

\* for k in set_collections: labels[k] = k + ": "
RECURSIVE LogicPass(_, _)
LogicPass(lab, ks) ==
    IF ks = <<>> THEN lab
    ELSE LogicPass(DictSet(lab, Head(ks), LogicLabel(DictGet(lab, Head(ks)), Head(ks))),
                   Tail(ks))

\* for k in set_collections: labels[k] += str(len(set_collections[k]))
RECURSIVE NumberPass(_, _, _)
NumberPass(lab, sc, ks) ==
    IF ks = <<>> THEN lab
    ELSE NumberPass(DictSet(lab, Head(ks),
                            NumberLabel(DictGet(lab, Head(ks)), DictGet(sc, Head(ks)))),
                    sc, Tail(ks))

\* for k in set_collections: labels[k] += "(%.1f%%)" % (...)
RECURSIVE PercentPass(_, _, _, _)
PercentPass(lab, sc, ks, data_size) ==
    IF ks = <<>> THEN lab
    ELSE PercentPass(DictSet(lab, Head(ks),
                             PercentLabel(DictGet(lab, Head(ks)), DictGet(sc, Head(ks)),
                                          data_size)),
                     sc, Tail(ks), data_size)

\* Variant of RangeExhausted: range(1, 2**N - 1).
RangeExhaustedOneShort(k, groups) == k >= Pow2(groups) - 1

\* `for n in range(1, 2**N)` has no value left for n.

RangeExhausted(k, groups) == k >= Pow2(groups)

\* Variant of DividesByZero: the division done once, ahead of the loop.
DividesByZeroHoisted(sc, data_size) == data_size = 0

\* The division of line 122 is evaluated, with a zero divisor, exactly when
\* the pass has a key to visit and s_all is empty.

DividesByZero(sc, data_size) == sc # <<>> /\ data_size = 0

----------------------------------------------------------------------------
(***************************************************************************)
(* The callers' inputs.                                                    *)
(***************************************************************************)

Elems == 1..MaxElem

\* The collections of at most `budget` elements.
Collections(budget) == UNION {[1..l -> Elems] : l \in 0..budget}

\* The lists of k collections that hold at most `budget` elements together.
RECURSIVE Lists(_, _)
Lists(k, budget) ==
    IF k = 0 THEN {<<>>}
    ELSE UNION {{<<c>> \o t : t \in Lists(k - 1, budget - Len(c))} :
                c \in Collections(budget)}

Range(a, b) == [i \in 1..(b - a) |-> a + i - 1]

\* The call of the docstring: [range(10), range(5,15), range(3,8)].
DocExample == <<Range(0, 10), Range(5, 15), Range(3, 8)>>

DataSet == UNION {Lists(k, MaxTotal) : k \in 0..MaxN} \cup {DocExample}

\* Option lists: every combination of the recognised options, two orders of
\* listing, and entries that are not recognised.
FillChoices ==
    { <<>>,
      <<"number">>, <<"logic">>, <<"percent">>,
      <<"logic", "number">>, <<"percent", "number">>, <<"percent", "logic">>,
      <<"logic", "number", "percent">>, <<"percent", "number", "logic">>,
      <<"color">>, <<"color", "number">>, <<"percent", "bold">> }

\* `fill` omitted, or one of the option lists passed.
FillArgs == {<<>>} \cup {<<f>> : f \in FillChoices}

\* `fill` omitted, or one of a few option lists passed.
FewFillArgs ==
    { <<>>, << <<"number">> >>, << <<"percent">> >>,
      << <<"percent", "number", "logic">> >> }

\* A collection listed in ascending order without duplicates.
RECURSIVE SortedList(_)
SortedList(S) ==
    IF S = {} THEN <<>>
    ELSE LET m == CHOOSE x \in S : \A y \in S : x <= y
         IN  <<m>> \o SortedList(S \ {m})

Canonical(d) == [i \in 1..Len(d) |-> SortedList(Set(d[i]))]

\* What one call was given and gave back: a mapping, or the ZeroDivisionError
\* of line 122.
Outcome(d, isError, lab) == [data |-> d, raised |-> isError, labels |-> lab]

----------------------------------------------------------------------------
(***************************************************************************)
(* The state machine: one call of get_labels at a time.                    *)
(***************************************************************************)

\* Variant of DataSize: len(s_all) or 1.
DataSizeOrOne == IF Cardinality(s_all) = 0 THEN 1 ELSE Cardinality(s_all)

\* Variant of DataSize: the length of chain(*data), duplicates counted.
DataSizeOfChain == Len(Chain(data))

\* data_size = len(s_all)

DataSize == Cardinality(s_all)

\* Nothing has been called yet; the default of `fill` is as line 68 builds it.
NotCalled ==
    /\ fill_default = <<"number">>
    /\ fill = <<>>
    /\ pc = "idle"
    /\ N = 0
    /\ sets_data = <<>>
    /\ s_all = {}
    /\ n = 0
    /\ set_collections = <<>>
    /\ labels = <<>>
    /\ returned = <<>>

\* Every argument list within the bounds, under a few option lists.
Init ==
    /\ data \in DataSet
    /\ fill_arg \in FewFillArgs
    /\ NotCalled

\* Every option list, over the argument lists whose collections are listed
\* in ascending order without duplicates.
InitOptions ==
    /\ data \in {d \in DataSet : d = Canonical(d)}
    /\ fill_arg \in FillArgs
    /\ NotCalled

\* Entry and lines 94-100: bind the parameters, build the sets.
Call ==
    /\ pc = "idle"
    /\ fill' = IF fill_arg = <<>> THEN fill_default ELSE fill_arg[1]
    /\ N' = Len(data)
    /\ sets_data' = SetsData(data)
    /\ s_all' = SAll(data)
    /\ set_collections' = <<>>
    /\ labels' = <<>>
    /\ n' = 1
    /\ pc' = "loop"
    /\ UNCHANGED <<data, fill_arg, fill_default, returned>>

\* Lines 101-110: one iteration of `for n in range(1, 2**N)`.
LoopBody ==
    /\ pc = "loop"
    /\ ~RangeExhausted(n, N)
    /\ LET key == Key(n, N)
           value == RegionValue(s_all, sets_data, key)
       IN  /\ set_collections' = DictSet(set_collections, key, value)
           /\ s_all' = SAllAfterBody(s_all, value)
    /\ n' = n + 1
    /\ UNCHANGED <<data, fill_arg, fill_default, fill, pc, N, sets_data, labels,
                   returned>>

\* Line 112, once the range is exhausted.
LoopExit ==
    /\ pc = "loop"
    /\ RangeExhausted(n, N)
    /\ labels' = EmptyLabels(DictKeys(set_collections))
    /\ pc' = "logic"
    /\ UNCHANGED <<data, fill_arg, fill_default, fill, N, sets_data, s_all, n,
                   set_collections, returned>>

\* Lines 113-115.
Logic ==
    /\ pc = "logic"
    /\ labels' = IF In("logic", fill)
                 THEN LogicPass(labels, DictKeys(set_collections))
                 ELSE labels
    /\ pc' = "number"
    /\ UNCHANGED <<data, fill_arg, fill_default, fill, N, sets_data, s_all, n,
                   set_collections, returned>>

\* Lines 116-118.
Number ==
    /\ pc = "number"
    /\ labels' = IF In("number", fill)
                 THEN NumberPass(labels, set_collections, DictKeys(set_collections))
                 ELSE labels
    /\ pc' = "percent"
    /\ UNCHANGED <<data, fill_arg, fill_default, fill, N, sets_data, s_all, n,
                   set_collections, returned>>

\* Lines 119-122, when no division fails.
Percent ==
    /\ pc = "percent"
    /\ ~(In("percent", fill) /\ DividesByZero(set_collections, DataSize))
    /\ labels' = IF In("percent", fill)
                 THEN PercentPass(labels, set_collections, DictKeys(set_collections),
                                  DataSize)
                 ELSE labels
    /\ pc' = "return"
    /\ UNCHANGED <<data, fill_arg, fill_default, fill, N, sets_data, s_all, n,
                   set_collections, returned>>

\* Line 122 with data_size = 0: ZeroDivisionError leaves the function.
PercentRaises ==
    /\ pc = "percent"
    /\ In("percent", fill)
    /\ DividesByZero(set_collections, DataSize)
    /\ returned' = Append(returned, Outcome(data, TRUE, <<>>))
    /\ pc' = "raised"
    /\ UNCHANGED <<data, fill_arg, fill_default, fill, N, sets_data, s_all, n,
                   set_collections, labels>>

\* Line 124.
Return ==
    /\ pc = "return"
    /\ returned' = Append(returned, Outcome(data, FALSE, labels))
    /\ pc' = "done"
    /\ UNCHANGED <<data, fill_arg, fill_default, fill, N, sets_data, s_all, n,
                   set_collections, labels>>

\* The caller calls again, with the same lists or with the same elements
\* listed in ascending order without duplicates, and the same `fill`.
CallAgain ==
    /\ pc \in {"done", "raised"}
    /\ Len(returned) < MaxCalls
    /\ data' \in {data, Canonical(data)}
    /\ pc' = "idle"
    /\ UNCHANGED <<fill_arg, fill_default, fill, N, sets_data, s_all, n,
                   set_collections, labels, returned>>

Next ==
    \/ Call
    \/ LoopBody
    \/ LoopExit
    \/ Logic
    \/ Number
    \/ Percent
    \/ PercentRaises
    \/ Return
    \/ CallAgain

Spec == Init /\ [][Next]_vars

SpecOptions == InitOptions /\ [][Next]_vars

----------------------------------------------------------------------------
(***************************************************************************)
(* Vocabulary of the properties, stated on the inputs and independent of   *)
(* the way get_labels computes.                                            *)
(***************************************************************************)

\* The union of the input collections.
Universe(d) == UNION {{d[i][j] : j \in DOMAIN d[i]} : i \in DOMAIN d}

\* x is an element of the collection at position i (i = 1 is group 0).
Member(x, d, i) == \E j \in DOMAIN d[i] : d[i][j] = x

\* The elements in exactly the groups whose character of k is '1'.
RegionSet(d, k) ==
    {x \in Universe(d) : \A i \in DOMAIN d : Member(x, d, i) <=> (k[i] = "1")}

\* A key read as a binary number, first character most significant.
RECURSIVE BinValue(_)
BinValue(k) ==
    IF k = <<>> THEN 0
    ELSE 2 * BinValue(SubSeq(k, 1, Len(k) - 1)) + (IF k[Len(k)] = "1" THEN 1 ELSE 0)

\* A string of decimal digits read as a number.
RECURSIVE DecValue(_)
DecValue(t) ==
    IF t = <<>> THEN 0
    ELSE 10 * DecValue(SubSeq(t, 1, Len(t) - 1))
         + (CHOOSE v \in 0..9 : Digits[v + 1] = t[Len(t)])

\* A dict as the set of its items.
Items(m) == {m[i] : i \in DOMAIN m}

RECURSIVE SumOfSizes(_)
SumOfSizes(sc) ==
    IF sc = <<>> THEN 0 ELSE Cardinality(Head(sc)[2]) + SumOfSizes(Tail(sc))

RECURSIVE SumOfNumbers(_)
SumOfNumbers(lab) ==
    IF lab = <<>> THEN 0 ELSE DecValue(Head(lab)[2]) + SumOfNumbers(Tail(lab))

\* The loop of lines 101-110 has run to its end in the current call.
Decomposed == pc \in {"logic", "number", "percent", "return", "done", "raised"}

\* The recognised options among those passed.
Options == {fill[i] : i \in DOMAIN fill} \cap {"logic", "number", "percent"}

\* Two argument lists with the same set of elements at every position.
SameSets(d, e) ==
    /\ Len(d) = Len(e)
    /\ \A i \in DOMAIN d : {d[i][j] : j \in DOMAIN d[i]} = {e[i][j] : j \in DOMAIN e[i]}

\* The last call made has completed, and this is what it gave back.
Completed == pc \in {"done", "raised"}

Last == returned[Len(returned)]

----------------------------------------------------------------------------
(***************************************************************************)
(* C1 - partition.  Once the regions of N >= 1 groups are computed, the    *)
(* sets stored under distinct keys are pairwise disjoint and their union   *)
(* is the union of the input collections: every element of the universe    *)
(* lies in the set of exactly one key.                                     *)
(***************************************************************************)
C1_Partition ==
    (Decomposed /\ N >= 1) =>
        /\ \A i, j \in DOMAIN set_collections :
              i # j => set_collections[i][2] \cap set_collections[j][2] = {}
        /\ UNION {set_collections[i][2] : i \in DOMAIN set_collections}
              = Universe(data)
        /\ \A x \in Universe(data) :
              Cardinality({i \in DOMAIN set_collections : x \in set_collections[i][2]}) = 1

\* Two overlapping, different groups decomposed: {1} under 10, {2} under 11
\* and nothing under 01.
C1_Witness ==
    /\ Decomposed
    /\ data = << <<1, 2>>, <<2>> >>
    /\ Items(set_collections) =
          { << <<"0", "1">>, {} >>, << <<"1", "0">>, {1} >>, << <<"1", "1">>, {2} >> }

(***************************************************************************)
(* C2 - region semantics.  The set stored under key k is exactly the set   *)
(* of universe elements that belong to group i if and only if character i  *)
(* of k is '1', the groups being the original input collections; and the   *)
(* call of the docstring returns the mapping the docstring shows.          *)
(***************************************************************************)
DocExpected ==
    { << <<"0", "0", "1">>, <<"0">> >>,
      << <<"0", "1", "0">>, <<"5">> >>,
      << <<"0", "1", "1">>, <<"0">> >>,
      << <<"1", "0", "0">>, <<"3">> >>,
      << <<"1", "0", "1">>, <<"2">> >>,
      << <<"1", "1", "0">>, <<"2">> >>,
      << <<"1", "1", "1">>, <<"3">> >> }

C2_RegionSemantics ==
    /\ (pc # "idle") =>
          \A i \in DOMAIN set_collections :
              set_collections[i][2] = RegionSet(data, set_collections[i][1])
    /\ (pc = "done" /\ data = DocExample /\ fill = <<"number">>) =>
          /\ ~Last.raised
          /\ Items(Last.labels) = DocExpected
          /\ Len(Last.labels) = 7

\* The docstring's call, fill=["number"] passed, has returned its mapping.
C2_Witness ==
    /\ pc = "done"
    /\ data = DocExample
    /\ fill_arg = << <<"number">> >>
    /\ Items(Last.labels) = DocExpected

(***************************************************************************)
(* C3 - shape of the result.  A mapping returned for N >= 1 groups has     *)
(* exactly 2^N - 1 entries; every key has exactly N characters, each '0'   *)
(* or '1'; the keys are pairwise distinct and none is all '0'.             *)
(***************************************************************************)
C3_KeyShape ==
    \A c \in DOMAIN returned :
        LET r == returned[c]
            width == Len(r.data)
        IN  (~r.raised /\ width >= 1) =>
               /\ Len(r.labels) = Pow2(width) - 1
               /\ \A i \in DOMAIN r.labels :
                     /\ Len(r.labels[i][1]) = width
                     /\ \A j \in 1..width : r.labels[i][1][j] \in {"0", "1"}
                     /\ \E j \in 1..width : r.labels[i][1][j] = "1"
               /\ \A i, j \in DOMAIN r.labels :
                     i # j => r.labels[i][1] # r.labels[j][1]

\* A mapping for two groups has been returned under options that include
\* all three recognised ones.
C3_Witness ==
    /\ pc = "done"
    /\ Len(data) = 2
    /\ Options = {"logic", "number", "percent"}
    /\ Len(Last.labels) = 3

(***************************************************************************)
(* C4 - percent of an empty universe.                                      *)
(* As claimed: every completed call whose options include "percent" and    *)
(* whose universe is empty has raised.                                     *)
(***************************************************************************)
C4_Original ==
    Completed =>
        ((In("percent", fill) /\ Universe(data) = {}) => Last.raised)

(***************************************************************************)
(* C4, amended - for N >= 1 groups: a call whose options include "percent" *)
(* and whose universe is empty never reaches its return statement; it ends *)
(* in the ZeroDivisionError, with no mapping given back, whatever other    *)
(* options are passed.                                                     *)
(***************************************************************************)
C4_EmptyUniverseRaises ==
    (In("percent", fill) /\ Universe(data) = {} /\ Len(data) >= 1) =>
        /\ pc # "return"
        /\ Completed => (Last.raised /\ Last.labels = <<>> /\ pc = "raised")

\* [[], []] with "percent" and "number": the call has raised.
C4_Witness ==
    /\ pc = "raised"
    /\ data = << <<>>, <<>> >>
    /\ In("percent", fill)
    /\ In("number", fill)
    /\ Last.raised

(***************************************************************************)
(* C5 - no groups.  A call with N = 0 returns the empty mapping and does   *)
(* not fail, whatever the options.                                         *)
(***************************************************************************)
C5_NoGroups ==
    (data = <<>>) =>
        /\ pc # "raised"
        /\ \A c \in DOMAIN returned : ~returned[c].raised /\ returned[c].labels = <<>>

\* The empty list with "percent" among the options has returned.
C5_Witness ==
    /\ pc = "done"
    /\ data = <<>>
    /\ In("percent", fill)
    /\ Last.labels = <<>>

(***************************************************************************)
(* C6 - label format.  In a returned mapping the label of key k is: k and  *)
(* ": " if "logic" is an option; then the decimal size of k's region if    *)
(* "number" is an option; then "(p%)", p being 100 * |region| / |universe| *)
(* to one decimal place, if "percent" is an option; and nothing else.      *)
(* Only the membership of the three options in `fill` matters.             *)
(***************************************************************************)
\* The tenths of a percent nearest to 100 * count / size.
NearestTenths(count, size) ==
    LET below == (1000 * count) \div size
    IN  CHOOSE t \in {below, below + 1} :
            /\ 2 * t * size - size <= 2000 * count
            /\ 2000 * count <= 2 * t * size + size

ExpectedLabel(d, k) ==
    LET count == Cardinality(RegionSet(d, k))
        size == Cardinality(Universe(d))
        t == NearestTenths(count, size)
    IN  (IF "logic" \in Options THEN k \o <<":", " ">> ELSE <<>>)
        \o (IF "number" \in Options THEN Str(count) ELSE <<>>)
        \o (IF "percent" \in Options
            THEN <<"(">> \o Str(t \div 10) \o <<".">> \o Str(t % 10) \o <<"%", ")">>
            ELSE <<>>)

C6_LabelFormat ==
    (pc = "done") =>
        \A i \in DOMAIN Last.labels :
            Last.labels[i][2] = ExpectedLabel(data, Last.labels[i][1])

\* A mapping with all three fragments in a label, the options having been
\* listed as percent, number, logic.
C6_Witness ==
    /\ pc = "done"
    /\ fill = <<"percent", "number", "logic">>
    /\ data = << <<1, 2>>, <<2>> >>
    /\ << <<"1", "1">>,
          <<"1", "1", ":", " ", "1", "(", "5", "0", ".", "0", "%", ")">> >>
           \in Items(Last.labels)
    /\ << <<"0", "1">>,
          <<"0", "1", ":", " ", "0", "(", "0", ".", "0", "%", ")">> >>
           \in Items(Last.labels)

(***************************************************************************)
(* C7 - count conservation.  For N >= 1 the sizes of the regions add up to *)
(* the size of the universe, and so do the integers that the "number"      *)
(* option alone writes into the labels.                                    *)
(***************************************************************************)
C7_CountConservation ==
    /\ (Decomposed /\ N >= 1) =>
          SumOfSizes(set_collections) = Cardinality(Universe(data))
    /\ (pc = "done" /\ Len(data) >= 1 /\ fill = <<"number">>) =>
          SumOfNumbers(Last.labels) = Cardinality(Universe(data))

\* The docstring's call: fifteen elements over seven regions.
C7_Witness ==
    /\ pc = "done"
    /\ data = DocExample
    /\ fill = <<"number">>
    /\ SumOfNumbers(Last.labels) = 15

(***************************************************************************)
(* C8 - purity.  The default option list stays ["number"]; while a call    *)
(* runs, the per-group sets and the universe it derived stay what they     *)
(* were derived as, so that every key starts from the full universe; and   *)
(* two completed calls with identical inputs gave back identical results.  *)
(***************************************************************************)
C8_Pure ==
    /\ fill_default = <<"number">>
    /\ (pc \notin {"idle"}) =>
          /\ s_all = Universe(data)
          /\ sets_data = [i \in 1..Len(data) |-> {data[i][j] : j \in DOMAIN data[i]}]
    /\ \A a, b \in DOMAIN returned :
          returned[a].data = returned[b].data =>
              /\ returned[a].raised = returned[b].raised
              /\ returned[a].labels = returned[b].labels

\* The same lists were passed twice and a non-empty mapping came back twice.
C8_Witness ==
    /\ pc = "done"
    /\ Len(returned) = 2
    /\ returned[1].data = returned[2].data
    /\ Len(returned[2].labels) = 3
    /\ s_all # {}

(***************************************************************************)
(* C9 - order of the keys.  The i-th key generated is the binary numeral   *)
(* of i, N characters wide, group 0 most significant: the keys come in     *)
(* strictly ascending order from 0...01 to 1...11, each non-zero           *)
(* combination once, and the returned mapping holds them in that order.    *)
(***************************************************************************)
C9_AscendingKeys ==
    /\ (pc # "idle") =>
          /\ \A i \in DOMAIN set_collections :
                /\ Len(set_collections[i][1]) = N
                /\ BinValue(set_collections[i][1]) = i
          /\ pc = "loop" => Len(set_collections) = n - 1
          /\ (Decomposed /\ N >= 1) => Len(set_collections) = Pow2(N) - 1
    /\ (pc \in {"number", "percent", "return", "done"}) =>
          DictKeys(labels) = DictKeys(set_collections)
    /\ (pc = "done") => DictKeys(Last.labels) = DictKeys(set_collections)

\* Three groups: seven keys from 001 to 111 in the returned mapping.
C9_Witness ==
    /\ pc = "done"
    /\ N = 3
    /\ DictKeys(Last.labels)[1] = <<"0", "0", "1">>
    /\ DictKeys(Last.labels)[4] = <<"1", "0", "0">>
    /\ DictKeys(Last.labels)[7] = <<"1", "1", "1">>

(***************************************************************************)
(* C10 - set semantics.  Under one option list, two calls whose            *)
(* collections hold the same set of elements at every position (they may   *)
(* differ in duplicates and in the order of the elements) gave back        *)
(* identical results.                                                      *)
(***************************************************************************)
C10_SetSemantics ==
    \A a, b \in DOMAIN returned :
        SameSets(returned[a].data, returned[b].data) =>
            /\ returned[a].raised = returned[b].raised
            /\ returned[a].labels = returned[b].labels

\* A call with a duplicate and descending order, then one with the same
\* elements listed once in ascending order, "percent" among the options.
C10_Witness ==
    /\ pc = "done"
    /\ Len(returned) = 2
    /\ returned[1].data = << <<2, 1, 2>> >>
    /\ returned[2].data = << <<1, 2>> >>
    /\ In("percent", fill)

============================================================================
